---- MODULE Spec2Model ----
(***************************************************************************)
(* Model of the clue-analytics backend: an Express application with a feed *)
(* proxy backed by a time-to-live cache, rate-limited subscription and     *)
(* contact endpoints, and two listing endpoints behind basic auth.         *)
(*                                                                         *)
(* The repository holds four builds of the server:                         *)
(*   "firebase"     src/server.js        Firebase RTDB + SendGrid          *)
(*   "sqlite_mail"  src/unnamed/part_001 SQLite + SendGrid                 *)
(*   "sqlite"       src/unnamed/part_000 SQLite, no email                  *)
(*   "feed"         src/unnamed/part_002 feed proxy only                   *)
(* The variable `variant` selects the build; it never changes.             *)
(*                                                                         *)
(* Time is an integer clock `now`.  One tick stands for one unit of the    *)
(* store's timestamp resolution; SQLite's CURRENT_TIMESTAMP truncates to   *)
(* TicksPerSecond ticks, Firebase records carry the tick itself.           *)
(***************************************************************************)
EXTENDS Integers, Sequences, FiniteSets, TLC

VARIABLES variant, now, cache, hits, subscribers, messages, reqs

vars == <<variant, now, cache, hits, subscribers, messages, reqs>>

(***************************** bounds ***************************************)
MaxTime == 3
MaxRecords == 2
MaxOver == 1
MaxHits == 2
TtlTicks == 2
WindowTicks == 2
TicksPerSecond == 2

(***************************** program constants ****************************)
SubscribeMax == 10
ContactMax == 5

StoreVariants == {"firebase", "sqlite_mail", "sqlite"}
MailVariants == {"firebase", "sqlite_mail"}
AllVariants == StoreVariants \cup {"feed"}

ReqIds == {1, 2}
Routes == {"subscribe", "contact"}
ClientKeys == {"k1", "k2"}

(***************************** JavaScript values ****************************)
Undef == [t |-> "undefined"]
Num(n) == [t |-> "number", v |-> n]
Str(s) == [t |-> "string", v |-> s]

\* !x for a value that is undefined, a number, or a string held as a TLA+ string
Falsy(x) ==
  \/ x.t = "undefined"
  \/ x.t = "number" /\ x.v = 0
  \/ x.t = "string" /\ x.v = ""

\* !x for a value whose string form is held as a sequence of characters
FalsyChars(x) ==
  \/ x.t = "undefined"
  \/ x.t = "number" /\ x.v = 0
  \/ x.t = "string" /\ Len(x.v) = 0

\* [^\s@]+ : a non-empty run without white space and without "@"
PlainRun(s) == Len(s) > 0 /\ \A i \in 1..Len(s) : s[i] \notin {" ", "@"}

\* a shape check that forgets the dot of the domain
emailRegex_noDot(s) ==
  \E i \in 1..Len(s) :
    /\ s[i] = "@"
    /\ PlainRun(SubSeq(s, 1, i - 1))
    /\ PlainRun(SubSeq(s, i + 1, Len(s)))

\* emailRegex.test(s) for /^[^\s@]+@[^\s@]+\.[^\s@]+$/
emailRegex(s) ==
  \E i \in 1..Len(s) : \E j \in 1..Len(s) :
    /\ i < j
    /\ s[i] = "@"
    /\ s[j] = "."
    /\ PlainRun(SubSeq(s, 1, i - 1))
    /\ PlainRun(SubSeq(s, i + 1, j - 1))
    /\ PlainRun(SubSeq(s, j + 1, Len(s)))

(***************************** requests *************************************)
NoArg == [none |-> TRUE]
NoBody == [ctype |-> "none", data |-> <<>>]
\* what the limiter sees of a request: the x-forwarded-for header and req.ip
NoConn == [xff |-> Undef, ip |-> ""]
IdleReq == [kind |-> "none", pc |-> "idle", arg |-> NoArg, conn |-> NoConn, status |-> 0,
            body |-> NoBody, fetches |-> 0, mails |-> 0, wrote |-> 0,
            reads |-> 0, stamp |-> 0, key |-> 0, sent |-> 0]

Free(r) == reqs[r].pc \in {"idle", "done"}

\* res.status(code).json(obj)
JsonOf(x) == [ctype |-> "json", data |-> x]
\* res.send(string)
SendOf(x) == [ctype |-> "html", data |-> <<x>>]
\* JSON.stringify of a string: the text between double quotes
Quoted(x) == <<"\"", x, "\"">>

\* a response goes out and the handler returns
Respond(q, code, b) ==
  [q EXCEPT !.pc = "done", !.status = code, !.body = b, !.sent = q.sent + 1]

(***************************** node-cache ***********************************)
NoEntry == [v |-> "", t |-> -1]
Urls == {"u1", "u2"}
Payloads == {"", "x", "y"}

\* NodeCache._check: an entry is expired once its time is before the clock
Expired(e) == e # NoEntry /\ e.t < now
LiveEntry(u) == IF cache[u] # NoEntry /\ ~Expired(cache[u]) THEN cache[u] ELSE NoEntry

\* NodeCache.get: the value, or Undef; an expired entry is deleted by the lookup
cache_get(u) == IF LiveEntry(u) # NoEntry THEN Str(cache[u].v) ELSE Undef
cache_after_get(u) == IF Expired(cache[u]) THEN [cache EXCEPT ![u] = NoEntry] ELSE cache

\* NodeCache.set with the default time-to-live
cache_set(c, u, p) == [c EXCEPT ![u] = [v |-> p, t |-> now + TtlTicks]]

(***************************** GET /fetch-feed ******************************)
FeedArgs == {Undef, Str("")} \cup {Str(u) : u \in Urls}

\* the handler up to its first await: validation, cache lookup, outbound request
FetchFeed(r, url) ==
  /\ Free(r)
  /\ LET q == [IdleReq EXCEPT !.kind = "feed", !.arg = url] IN
     IF Falsy(url)
     THEN /\ reqs' = [reqs EXCEPT ![r] = Respond(q, 400, JsonOf("URL parameter is required"))]
          /\ UNCHANGED cache
     ELSE LET cachedFeed == cache_get(url.v) IN
          /\ cache' = cache_after_get(url.v)
          /\ IF ~Falsy(cachedFeed)
             THEN reqs' = [reqs EXCEPT ![r] = Respond(q, 200, JsonOf(Quoted(cachedFeed.v)))]
             ELSE reqs' = [reqs EXCEPT ![r] = [q EXCEPT !.pc = "fetch", !.fetches = 1]]
  /\ UNCHANGED <<variant, now, hits, subscribers, messages>>

\* a completion that leaves an entry stored by another request in place
FetchFeedOk_keepFirst(r, feedData) ==
  /\ reqs[r].pc = "fetch"
  /\ cache' = IF cache[reqs[r].arg.v] # NoEntry THEN cache
              ELSE cache_set(cache, reqs[r].arg.v, feedData)
  /\ reqs' = [reqs EXCEPT ![r] = Respond(reqs[r], 200, SendOf(feedData))]
  /\ UNCHANGED <<variant, now, hits, subscribers, messages>>

\* axios.get resolves: the payload is cached and sent
FetchFeedOk(r, feedData) ==
  /\ reqs[r].pc = "fetch"
  /\ cache' = cache_set(cache, reqs[r].arg.v, feedData)
  /\ reqs' = [reqs EXCEPT ![r] = Respond(reqs[r], 200, SendOf(feedData))]
  /\ UNCHANGED <<variant, now, hits, subscribers, messages>>

\* a failure path that caches the error it reports
FetchFeedFail_caching(r) ==
  /\ reqs[r].pc = "fetch"
  /\ cache' = cache_set(cache, reqs[r].arg.v, "")
  /\ reqs' = [reqs EXCEPT ![r] = Respond(reqs[r], 500, JsonOf("Failed to fetch feed"))]
  /\ UNCHANGED <<variant, now, hits, subscribers, messages>>

\* axios.get rejects (network error, non-2xx status, timeout)
FetchFeedFail(r) ==
  /\ reqs[r].pc = "fetch"
  /\ reqs' = [reqs EXCEPT ![r] = Respond(reqs[r], 500, JsonOf("Failed to fetch feed"))]
  /\ UNCHANGED <<variant, now, cache, hits, subscribers, messages>>

(***************************** express-rate-limit ***************************)
NoHits == [n |-> 0, reset |-> 0]

\* s.split(',')[0]: the characters before the first comma
splitFirst(s) ==
  LET commas == {i \in 1..Len(s) : s[i] = ","} IN
  IF commas = {} THEN s
  ELSE SubSeq(s, 1, (CHOOSE i \in commas : \A j \in commas : i <= j) - 1)

\* s.trim(): s without its leading and trailing white space
trim(s) ==
  LET inked == {i \in 1..Len(s) : s[i] # " "} IN
  IF inked = {} THEN <<>>
  ELSE SubSeq(s, CHOOSE i \in inked : \A j \in inked : i <= j,
                 CHOOSE i \in inked : \A j \in inked : j <= i)

\* the string spelled by a sequence of characters
RECURSIVE Spelled(_)
Spelled(s) == IF s = <<>> THEN "" ELSE s[1] \o Spelled(Tail(s))

\* a key taken from the connection alone
keyGenerator_lastHop(conn) == conn.ip

\* keyGenerator: forwardedFor ? forwardedFor.split(',')[0].trim() : req.ip
keyGenerator(conn) ==
  IF ~FalsyChars(conn.xff) THEN Spelled(trim(splitFirst(conn.xff.v))) ELSE conn.ip

max(route) == IF route = "subscribe" THEN SubscribeMax ELSE ContactMax

\* the store's increment: a first hit opens a window of windowMs
Increment(h) ==
  IF h = NoHits THEN [n |-> 1, reset |-> now + WindowTicks]
  ELSE [h EXCEPT !.n = h.n + 1]

HitsAfter(route, conn) ==
  [hits EXCEPT ![route][keyGenerator(conn)] = Increment(hits[route][keyGenerator(conn)])]

\* a limiter that lets one request too many through
Limited_offByOne(route, conn) == Increment(hits[route][keyGenerator(conn)]).n > max(route) + 1

\* the limiter answers itself once the count exceeds max
Limited(route, conn) == Increment(hits[route][keyGenerator(conn)]).n > max(route)

TooMany(route) ==
  [ctype |-> "text",
   data |-> IF route = "subscribe"
            THEN "Too many subscription attempts from this IP, please try again later."
            ELSE "Too many contact messages from this IP, please try again later."]

(***************************** stores ***************************************)
Emails(store) == {store[i].email : i \in 1..Len(store)}

\* writes handed to the store and not yet completed
Pending(kind) == Cardinality({r \in ReqIds : reqs[r].kind = kind /\ reqs[r].pc = "write"})

\* Firebase push(): a key that sorts after every key handed out and still in use
PushKey(store, kind) ==
  LET used == {store[i].id : i \in 1..Len(store)}
                \cup {reqs[r].key : r \in {x \in ReqIds : reqs[x].kind = kind /\ reqs[x].pc = "write"}}
  IN  IF used = {} THEN 1 ELSE 1 + CHOOSE m \in used : \A k \in used : k <= m

\* a write that replaces the node instead of adding a child to it
InsertByKey_replacing(store, rec) == <<rec>>

\* Firebase keeps the children of a node in key order
InsertByKey(store, rec) ==
  LET before == SelectSeq(store, LAMBDA x : x.id < rec.id)
      after == SelectSeq(store, LAMBDA x : x.id > rec.id)
  IN  before \o <<rec>> \o after

\* CURRENT_TIMESTAMP: the clock, truncated to the second
CURRENT_TIMESTAMP == now \div TicksPerSecond

\* new Date().toISOString(): the clock at full resolution
ISOTime == now

\* the orders in which SELECT ... ORDER BY <stamp> DESC may return a table:
\* rows with equal stamps come in an order SQL leaves open
OrderByDesc(table) ==
  {rows \in [1..Len(table) -> {table[i] : i \in 1..Len(table)}] :
     /\ \A i \in 1..Len(table) : \E j \in 1..Len(table) : rows[j] = table[i]
     /\ \A i \in 1..(Len(table) - 1) : rows[i].at >= rows[i + 1].at}

(***************************** POST /subscribe ******************************)
\* limiter, validation, and the write handed to the store
Subscribe(r, conn, email, cap) ==
  /\ Free(r)
  /\ variant \in StoreVariants
  /\ hits[ "subscribe"][keyGenerator(conn)].n < cap
  /\ hits' = HitsAfter("subscribe", conn)
  /\ LET q == [IdleReq EXCEPT !.kind = "subscribe", !.arg = [email |-> email],
                             !.conn = conn] IN
     IF Limited("subscribe", conn)
     THEN reqs' = [reqs EXCEPT ![r] = Respond(q, 429, TooMany("subscribe"))]
     ELSE IF FalsyChars(email) \/ email.t # "string"
     THEN reqs' = [reqs EXCEPT ![r] =
                     Respond(q, 400, JsonOf("Email is required and must be a string"))]
     ELSE IF ~emailRegex(email.v)
     THEN reqs' = [reqs EXCEPT ![r] = Respond(q, 400, JsonOf("Invalid email address"))]
     ELSE /\ Len(subscribers) + Pending("subscribe") < MaxRecords
          /\ IF variant = "firebase"
             THEN reqs' = [reqs EXCEPT ![r] =
                             [q EXCEPT !.pc = "write", !.stamp = ISOTime,
                                       !.key = PushKey(subscribers, "subscribe")]]
             ELSE reqs' = [reqs EXCEPT ![r] = [q EXCEPT !.pc = "write"]]
  /\ UNCHANGED <<variant, now, cache, subscribers, messages>>

\* the store completes the write: ref.set resolves, or stmt.run calls back
SubscribeWritten(r) ==
  /\ reqs[r].kind = "subscribe" /\ reqs[r].pc = "write"
  /\ LET q == reqs[r] IN
     IF variant = "firebase"
     THEN /\ subscribers' = InsertByKey(subscribers,
                               [id |-> q.key, email |-> q.arg.email.v, at |-> q.stamp])
          /\ reqs' = [reqs EXCEPT ![r] = [q EXCEPT !.wrote = 1, !.mails = 1, !.pc = "mail"]]
     ELSE IF q.arg.email.v \in Emails(subscribers)
     THEN /\ reqs' = [reqs EXCEPT ![r] = Respond(q, 409, JsonOf("Email already subscribed"))]
          /\ UNCHANGED subscribers
     ELSE /\ subscribers' = Append(subscribers,
                               [id |-> Len(subscribers) + 1, email |-> q.arg.email.v,
                                at |-> CURRENT_TIMESTAMP])
          /\ IF variant = "sqlite_mail"
             THEN reqs' = [reqs EXCEPT ![r] =
                             [q EXCEPT !.wrote = 1, !.key = Len(subscribers) + 1, !.mails = 1,
                                       !.pc = "mail", !.status = 200, !.sent = q.sent + 1,
                                       !.body = JsonOf("Successfully subscribed!")]]
             ELSE reqs' = [reqs EXCEPT ![r] =
                             Respond([q EXCEPT !.wrote = 1, !.key = Len(subscribers) + 1],
                                     200, JsonOf("Successfully subscribed!"))]
  /\ UNCHANGED <<variant, now, cache, hits, messages>>

\* a failure path that sends the confirmation all the same
SubscribeWriteFail_mailing(r) ==
  /\ reqs[r].kind = "subscribe" /\ reqs[r].pc = "write"
  /\ reqs' = [reqs EXCEPT ![r] =
                Respond([reqs[r] EXCEPT !.mails = 1], 500, JsonOf("Failed to subscribe"))]
  /\ UNCHANGED <<variant, now, cache, hits, subscribers, messages>>

\* the store fails the write for a reason other than uniqueness
SubscribeWriteFail(r) ==
  /\ reqs[r].kind = "subscribe" /\ reqs[r].pc = "write"
  /\ reqs' = [reqs EXCEPT ![r] = Respond(reqs[r], 500, JsonOf("Failed to subscribe"))]
  /\ UNCHANGED <<variant, now, cache, hits, subscribers, messages>>

\* a settled send that answers the request in every build
SubscribeMailed_answering(r, ok) ==
  /\ reqs[r].kind = "subscribe" /\ reqs[r].pc = "mail"
  /\ IF ok
     THEN reqs' = [reqs EXCEPT ![r] = Respond(reqs[r], 200, JsonOf("Successfully subscribed!"))]
     ELSE reqs' = [reqs EXCEPT ![r] = Respond(reqs[r], 500, JsonOf("Failed to subscribe"))]
  /\ UNCHANGED <<variant, now, cache, hits, subscribers, messages>>

\* sgMail.send settles: awaited inside the try block in the Firebase build,
\* a detached promise whose outcome is only logged in the SQLite build
SubscribeMailed(r, ok) ==
  /\ reqs[r].kind = "subscribe" /\ reqs[r].pc = "mail"
  /\ IF variant = "firebase"
     THEN IF ok
          THEN reqs' = [reqs EXCEPT ![r] = Respond(reqs[r], 200, JsonOf("Successfully subscribed!"))]
          ELSE reqs' = [reqs EXCEPT ![r] = Respond(reqs[r], 500, JsonOf("Failed to subscribe"))]
     ELSE reqs' = [reqs EXCEPT ![r].pc = "done"]
  /\ UNCHANGED <<variant, now, cache, hits, subscribers, messages>>

(***************************** POST /contact ********************************)
\* limiter, validation, and the write handed to the store
Contact(r, conn, b, cap) ==
  /\ Free(r)
  /\ variant \in StoreVariants
  /\ hits["contact"][keyGenerator(conn)].n < cap
  /\ hits' = HitsAfter("contact", conn)
  /\ LET q == [IdleReq EXCEPT !.kind = "contact", !.arg = b, !.conn = conn] IN
     IF Limited("contact", conn)
     THEN reqs' = [reqs EXCEPT ![r] = Respond(q, 429, TooMany("contact"))]
     ELSE IF Falsy(b.name) \/ b.name.t # "string"
     THEN reqs' = [reqs EXCEPT ![r] =
                     Respond(q, 400, JsonOf("Name is required and must be a string"))]
     ELSE IF FalsyChars(b.email) \/ b.email.t # "string"
     THEN reqs' = [reqs EXCEPT ![r] =
                     Respond(q, 400, JsonOf("Email is required and must be a string"))]
     ELSE IF Falsy(b.message) \/ b.message.t # "string"
     THEN reqs' = [reqs EXCEPT ![r] =
                     Respond(q, 400, JsonOf("Message is required and must be a string"))]
     ELSE IF ~emailRegex(b.email.v)
     THEN reqs' = [reqs EXCEPT ![r] = Respond(q, 400, JsonOf("Invalid email address"))]
     ELSE /\ Len(messages) + Pending("contact") < MaxRecords
          /\ IF variant = "firebase"
             THEN reqs' = [reqs EXCEPT ![r] =
                             [q EXCEPT !.pc = "write", !.stamp = ISOTime,
                                       !.key = PushKey(messages, "contact")]]
             ELSE reqs' = [reqs EXCEPT ![r] = [q EXCEPT !.pc = "write"]]
  /\ UNCHANGED <<variant, now, cache, subscribers, messages>>

\* the store completes the write: ref.set resolves, or stmt.run calls back
ContactWritten(r) ==
  /\ reqs[r].kind = "contact" /\ reqs[r].pc = "write"
  /\ LET q == reqs[r]
         rec(id, at) == [id |-> id, name |-> q.arg.name.v, email |-> q.arg.email.v,
                         message |-> q.arg.message.v, at |-> at]
     IN
     IF variant = "firebase"
     THEN /\ messages' = InsertByKey(messages, rec(q.key, q.stamp))
          /\ reqs' = [reqs EXCEPT ![r] = [q EXCEPT !.wrote = 1, !.mails = 1, !.pc = "mail"]]
     ELSE /\ messages' = Append(messages, rec(Len(messages) + 1, CURRENT_TIMESTAMP))
          /\ IF variant = "sqlite_mail"
             THEN reqs' = [reqs EXCEPT ![r] =
                             [q EXCEPT !.wrote = 1, !.key = Len(messages) + 1, !.mails = 1,
                                       !.pc = "mail", !.status = 200, !.sent = q.sent + 1,
                                       !.body = JsonOf("Message sent successfully!")]]
             ELSE reqs' = [reqs EXCEPT ![r] =
                             Respond([q EXCEPT !.wrote = 1, !.key = Len(messages) + 1],
                                     200, JsonOf("Message sent successfully!"))]
  /\ UNCHANGED <<variant, now, cache, hits, subscribers>>

\* the store fails the write
ContactWriteFail(r) ==
  /\ reqs[r].kind = "contact" /\ reqs[r].pc = "write"
  /\ reqs' = [reqs EXCEPT ![r] = Respond(reqs[r], 500, JsonOf("Failed to send message"))]
  /\ UNCHANGED <<variant, now, cache, hits, subscribers, messages>>

\* sgMail.send to the admin address settles
ContactMailed(r, ok) ==
  /\ reqs[r].kind = "contact" /\ reqs[r].pc = "mail"
  /\ IF variant = "firebase"
     THEN IF ok
          THEN reqs' = [reqs EXCEPT ![r] = Respond(reqs[r], 200, JsonOf("Message sent successfully!"))]
          ELSE reqs' = [reqs EXCEPT ![r] = Respond(reqs[r], 500, JsonOf("Failed to send message"))]
     ELSE reqs' = [reqs EXCEPT ![r].pc = "done"]
  /\ UNCHANGED <<variant, now, cache, hits, subscribers, messages>>

(***************************** GET /subscribers, GET /messages **************)
apiKey == "key"
NoCreds == [name |-> "", pass |-> "", parsed |-> FALSE]
Creds(n, p) == [name |-> n, pass |-> p, parsed |-> TRUE]

\* a middleware that checks the password and forgets the user name
authenticate_passOnly(user) == user.parsed /\ user.pass = apiKey

\* authenticate: TRUE when the middleware calls next()
authenticate(user) == ~(~user.parsed \/ user.name # "admin" \/ user.pass # apiKey)

Unauthorized == [ctype |-> "json", data |-> "Unauthorized",
                 challenge |-> "Basic realm=\"Clue Analytics Admin\""]

Table(kind) == IF kind = "subscribers" THEN subscribers ELSE messages

\* the middleware, then the read handed to the store
List(r, kind, user) ==
  /\ Free(r)
  /\ variant \in StoreVariants
  /\ LET q == [IdleReq EXCEPT !.kind = kind, !.arg = user] IN
     IF ~authenticate(user)
     THEN reqs' = [reqs EXCEPT ![r] = Respond(q, 401, Unauthorized)]
     ELSE reqs' = [reqs EXCEPT ![r] = [q EXCEPT !.pc = "read", !.reads = 1]]
  /\ UNCHANGED <<variant, now, cache, hits, subscribers, messages>>

\* the read completes: Object.entries of the snapshot in the Firebase build,
\* the rows of SELECT ... ORDER BY <stamp> DESC in the SQLite builds
Listed(r) ==
  /\ reqs[r].kind \in {"subscribers", "messages"} /\ reqs[r].pc = "read"
  /\ \E rows \in IF variant = "firebase" THEN {Table(reqs[r].kind)}
                 ELSE OrderByDesc(Table(reqs[r].kind)) :
       reqs' = [reqs EXCEPT ![r] = Respond(reqs[r], 200, JsonOf(rows))]
  /\ UNCHANGED <<variant, now, cache, hits, subscribers, messages>>

\* the read fails
ListFail(r) ==
  /\ reqs[r].kind \in {"subscribers", "messages"} /\ reqs[r].pc = "read"
  /\ reqs' = [reqs EXCEPT ![r] = Respond(reqs[r], 500, JsonOf("Failed to retrieve"))]
  /\ UNCHANGED <<variant, now, cache, hits, subscribers, messages>>

(***************************** clock ****************************************)

\* time passes; the limiter's store drops the windows that have ended
Tick(limit) ==
  /\ now < limit
  /\ now' = now + 1
  /\ hits' = [rt \in Routes |-> [k \in ClientKeys |->
                IF hits[rt][k] # NoHits /\ hits[rt][k].reset <= now + 1
                THEN NoHits ELSE hits[rt][k]]]
  /\ UNCHANGED <<variant, cache, subscribers, messages, reqs>>

(***************************** inputs ****************************************)
E1 == <<"a", "@", "b", ".", "c">>
E2 == <<"z", ".", "y", "@", "b", ".", "c", ".", "d">>
BadEmails == {Undef, Num(7), Num(0), Str(<<>>), Str(<<"a", "@", "b">>),
              Str(<<"a", " ", "@", "b", ".", "c">>), Str(<<"a", "@", "@", "b", ".", "c">>),
              Str(<<"@", "b", ".", "c">>), Str(<<"a", "@", "b", ".">>)}
GoodEmails == {Str(E1), Str(E2)}

Msg(n, e, m) == [name |-> n, email |-> e, message |-> m]
GoodContacts == {Msg(Str("A"), Str(E1), Str("hi")), Msg(Str("A"), Str(E1), Str("yo"))}
BadContacts == {Msg(Undef, Str(E1), Str("hi")), Msg(Str(""), Str(E1), Str("hi")),
                Msg(Num(7), Str(E1), Str("hi")), Msg(Str("A"), Undef, Str("hi")),
                Msg(Str("A"), Num(7), Str("hi")), Msg(Str("A"), Str(<<"a", "@", "b">>), Str("hi")),
                Msg(Str("A"), Str(E1), Undef), Msg(Str("A"), Str(E1), Str("")),
                Msg(Str("A"), Str(E1), Num(7))}

\* a request without the header, and one whose header holds the text `chars`
Direct(ip) == [xff |-> Undef, ip |-> ip]
Forwarded(chars, ip) == [xff |-> Str(chars), ip |-> ip]

\* "k1, k2", " k2 " and the empty header
ViaProxy == <<"k", "1", ",", " ", "k", "2">>
Padded == <<" ", "k", "2", " ">>
Conns == {Direct("k1"), Direct("k2"), Forwarded(ViaProxy, "k1"), Forwarded(ViaProxy, "k2"),
          Forwarded(Padded, "k1"), Forwarded(<<>>, "k2")}

GoodUser == Creds("admin", apiKey)
BadUsers == {NoCreds, Creds("admin", "guess"), Creds("root", apiKey), Creds("root", "guess")}

(***************************** specifications *******************************)
InitCommon ==
  /\ now = 0
  /\ cache = [u \in Urls |-> NoEntry]
  /\ hits = [rt \in Routes |-> [k \in ClientKeys |-> NoHits]]
  /\ subscribers = <<>>
  /\ messages = <<>>
  /\ reqs = [r \in ReqIds |-> IdleReq]

\* the feed proxy alone, two requests in flight
InitFeed == variant \in AllVariants /\ InitCommon

NextFeed ==
  \/ \E r \in ReqIds : \E url \in FeedArgs : FetchFeed(r, url)
  \/ \E r \in ReqIds : \E p \in Payloads : FetchFeedOk(r, p)
  \/ \E r \in ReqIds : FetchFeedFail(r)
  \/ Tick(MaxTime)

SpecFeed == InitFeed /\ [][NextFeed]_vars

\* two subscription requests in flight at once, no other traffic
InitSubscribe == variant \in StoreVariants /\ InitCommon

NextSubscribe ==
  \/ \E r \in ReqIds : \E e \in GoodEmails : Subscribe(r, Direct("k1"), e, MaxHits)
  \/ \E r \in ReqIds : SubscribeWritten(r)
  \/ \E r \in ReqIds : SubscribeWriteFail(r)
  \/ \E r \in ReqIds : \E ok \in BOOLEAN : SubscribeMailed(r, ok)

SpecSubscribe == InitSubscribe /\ [][NextSubscribe]_vars

\* every endpoint, one request at a time
Init == variant \in StoreVariants /\ InitCommon

Next ==
  \/ \E url \in {Undef, Str(""), Str("u1")} : FetchFeed(1, url)
  \/ \E p \in Payloads : FetchFeedOk(1, p)
  \/ FetchFeedFail(1)
  \/ \E e \in GoodEmails \cup BadEmails : Subscribe(1, Direct("k1"), e, MaxHits)
  \/ SubscribeWritten(1)
  \/ SubscribeWriteFail(1)
  \/ \E ok \in BOOLEAN : SubscribeMailed(1, ok)
  \/ \E b \in GoodContacts \cup BadContacts : Contact(1, Direct("k1"), b, MaxHits)
  \/ ContactWritten(1)
  \/ ContactWriteFail(1)
  \/ \E ok \in BOOLEAN : ContactMailed(1, ok)
  \/ \E k \in {"subscribers", "messages"} : \E u \in {GoodUser} \cup BadUsers : List(1, k, u)
  \/ Listed(1)
  \/ ListFail(1)

Spec == Init /\ [][Next]_vars

\* valid writes on one connection and authorized listings on another while the
\* clock advances; the stores may hold a record written one second earlier
OldSubscriber == [id |-> 1, email |-> E2, at |-> 0]
OldMessage == [id |-> 1, name |-> "A", email |-> E1, message |-> "old", at |-> 0]

InitList ==
  /\ variant \in StoreVariants
  /\ now = TicksPerSecond
  /\ cache = [u \in Urls |-> NoEntry]
  /\ hits = [rt \in Routes |-> [k \in ClientKeys |-> NoHits]]
  /\ subscribers \in {<<>>, <<OldSubscriber>>}
  /\ messages \in {<<>>, <<OldMessage>>}
  /\ reqs = [r \in ReqIds |-> IdleReq]

NextList ==
  \/ \E e \in {Str(E1)} : Subscribe(1, Direct("k1"), e, MaxHits)
  \/ SubscribeWritten(1)
  \/ SubscribeWriteFail(1)
  \/ \E ok \in BOOLEAN : SubscribeMailed(1, ok)
  \/ \E b \in {Msg(Str("A"), Str(E1), Str("hi"))} : Contact(1, Direct("k1"), b, MaxHits)
  \/ ContactWritten(1)
  \/ ContactWriteFail(1)
  \/ \E ok \in BOOLEAN : ContactMailed(1, ok)
  \/ \E k \in {"subscribers", "messages"} : List(2, k, GoodUser)
  \/ Listed(2)
  \/ ListFail(2)
  \/ Tick(TicksPerSecond + MaxTime - 1)

SpecList == InitList /\ [][NextList]_vars

\* one client driving both limited routes past their limits
InitLimiter == variant \in StoreVariants /\ InitCommon

NextLimiter ==
  \/ \E e \in {Str(E1), Undef} : Subscribe(1, Direct("k1"), e, SubscribeMax + MaxOver)
  \/ SubscribeWritten(1)
  \/ SubscribeWriteFail(1)
  \/ \E ok \in BOOLEAN : SubscribeMailed(1, ok)
  \/ \E b \in {Msg(Str("A"), Str(E1), Str("hi")), Msg(Undef, Str(E1), Str("hi"))} :
        Contact(1, Direct("k1"), b, ContactMax + MaxOver)
  \/ ContactWritten(1)
  \/ ContactWriteFail(1)
  \/ \E ok \in BOOLEAN : ContactMailed(1, ok)
  \/ Tick(WindowTicks)

SpecLimiter == InitLimiter /\ [][NextLimiter]_vars

\* clients behind and beside a proxy on both limited routes
InitKeys == variant \in StoreVariants /\ InitCommon

NextKeys ==
  \/ \E c \in Conns : \E e \in {Str(E1), Undef} : Subscribe(1, c, e, MaxHits)
  \/ SubscribeWritten(1)
  \/ SubscribeWriteFail(1)
  \/ \E ok \in BOOLEAN : SubscribeMailed(1, ok)
  \/ \E c \in Conns : \E b \in {Msg(Str("A"), Str(E1), Str("hi")), Msg(Undef, Str(E1), Str("hi"))} :
        Contact(1, c, b, MaxHits)
  \/ ContactWritten(1)
  \/ ContactWriteFail(1)
  \/ \E ok \in BOOLEAN : ContactMailed(1, ok)

SpecKeys == InitKeys /\ [][NextKeys]_vars

\* every endpoint and every way out of each handler, one request at a time,
\* with every outbound fetch, store call and email send completing in the end
InitLive == variant \in StoreVariants /\ InitCommon

Arrive ==
  \/ \E url \in {Undef, Str("u1")} : FetchFeed(1, url)
  \/ \E e \in {Str(E1), Undef} : Subscribe(1, Direct("k1"), e, MaxHits)
  \/ \E b \in {Msg(Str("A"), Str(E1), Str("hi")), Msg(Undef, Str(E1), Str("hi"))} :
        Contact(1, Direct("k1"), b, ContactMax + MaxOver)
  \/ \E k \in {"subscribers", "messages"} : \E u \in {GoodUser, NoCreds} : List(1, k, u)

Complete ==
  \/ \E p \in Payloads : FetchFeedOk(1, p)
  \/ FetchFeedFail(1)
  \/ SubscribeWritten(1)
  \/ SubscribeWriteFail(1)
  \/ \E ok \in BOOLEAN : SubscribeMailed(1, ok)
  \/ ContactWritten(1)
  \/ ContactWriteFail(1)
  \/ \E ok \in BOOLEAN : ContactMailed(1, ok)
  \/ Listed(1)
  \/ ListFail(1)

NextLive == Arrive \/ Complete

SpecLive == InitLive /\ [][NextLive]_vars /\ WF_vars(Complete)

(***************************** claims ***************************************)
\* slot r takes a new request in this step
Arrives(r) == Free(r) /\ reqs'[r] # reqs[r]

Count(store, e) == Cardinality({i \in 1..Len(store) : store[i].email = e})

\* C1: in every storage variant no two subscriber records hold the same email:
\* a subscription answered 200 added one record, and one answered 409 added none.
C1_SubscribeOnce ==
  /\ \A i, j \in 1..Len(subscribers) :
       i # j => subscribers[i].email # subscribers[j].email
  /\ \A r \in ReqIds : reqs[r].kind = "subscribe" /\ reqs[r].pc = "done" =>
       /\ reqs[r].status = 200 => reqs[r].wrote = 1
       /\ reqs[r].status = 409 => reqs[r].wrote = 0

\* C2: of two subscriptions with the same email whose writes have both completed,
\* exactly one is answered 200 and the other 409, and the store holds exactly one
\* record for that email.
C2_ConcurrentSubscribe ==
  \A r1, r2 \in ReqIds :
    ( /\ r1 # r2
      /\ reqs[r1].kind = "subscribe" /\ reqs[r2].kind = "subscribe"
      /\ reqs[r1].arg = reqs[r2].arg
      /\ reqs[r1].pc \in {"mail", "done"} /\ reqs[r2].pc \in {"mail", "done"}
      /\ ~(reqs[r1].status = 500 /\ reqs[r1].wrote = 0)
      /\ ~(reqs[r2].status = 500 /\ reqs[r2].wrote = 0) )
    => /\ Count(subscribers, reqs[r1].arg.email.v) = 1
       /\ (reqs[r1].status # 0 /\ reqs[r2].status # 0) =>
            {reqs[r1].status, reqs[r2].status} = {200, 409}

\* the shape the claims ask of an address: no white space, exactly one "@" with
\* something before it, and after it a domain with a dot inside
ShapeOk(s) ==
  /\ \A i \in 1..Len(s) : s[i] # " "
  /\ Cardinality({i \in 1..Len(s) : s[i] = "@"}) = 1
  /\ \E p \in 2..Len(s) :
       /\ s[p] = "@"
       /\ \E d \in (p + 2)..(Len(s) - 1) : s[d] = "."

Missing(x) == x.t # "string" \/ x.v = ""

Malformed(q) ==
  \/ q.kind = "feed" /\ Missing(q.arg)
  \/ q.kind = "subscribe" /\ (q.arg.email.t # "string" \/ ~ShapeOk(q.arg.email.v))
  \/ q.kind = "contact" /\ ( \/ Missing(q.arg.name)
                             \/ Missing(q.arg.message)
                             \/ q.arg.email.t # "string"
                             \/ ~ShapeOk(q.arg.email.v) )

\* C3: a request with missing or malformed input that reaches its handler is
\* answered 400 in the step that takes it, with no store write, no cache change,
\* no outbound fetch and no email.
C3_BadInputIs400 ==
  [][\A r \in ReqIds :
       (Arrives(r) /\ Malformed(reqs'[r]) /\ reqs'[r].status # 429) =>
         /\ reqs'[r].pc = "done" /\ reqs'[r].status = 400
         /\ reqs'[r].fetches = 0 /\ reqs'[r].mails = 0 /\ reqs'[r].wrote = 0
         /\ UNCHANGED <<subscribers, messages, cache>>]_vars

\* a 400 given to a contact request while both stores and the cache hold data
C3_Witness ==
  /\ reqs[1].kind = "contact" /\ reqs[1].status = 400
  /\ reqs[1].arg.email = Str(<<"a", "@", "b">>)
  /\ Len(subscribers) > 0 /\ Len(messages) > 0 /\ cache["u1"] # NoEntry

\* C4: a GET /fetch-feed that finds an unexpired entry for its url is answered
\* from the cache without an outbound request, whatever payload the entry holds;
\* one that finds none issues exactly one outbound request.
C4_CacheWithinTtl ==
  [][\A r \in ReqIds :
       (Arrives(r) /\ reqs'[r].kind = "feed" /\ ~Falsy(reqs'[r].arg)) =>
         IF LiveEntry(reqs'[r].arg.v) # NoEntry
         THEN /\ reqs'[r].pc = "done" /\ reqs'[r].status = 200
              /\ reqs'[r].fetches = 0
         ELSE reqs'[r].pc = "fetch" /\ reqs'[r].fetches = 1]_vars

BadCreds(user) == ~user.parsed \/ user.name # "admin" \/ user.pass # "key"

\* C5: a listing request without valid credentials is answered 401 with the
\* challenge header, never reads a store, and its body holds no stored data.
C5_Unauthorized401 ==
  \A r \in ReqIds :
    (reqs[r].kind \in {"subscribers", "messages"} /\ BadCreds(reqs[r].arg)) =>
      /\ reqs[r].pc = "done" /\ reqs[r].status = 401
      /\ reqs[r].reads = 0
      /\ reqs[r].body = [ctype |-> "json", data |-> "Unauthorized",
                         challenge |-> "Basic realm=\"Clue Analytics Admin\""]

\* the right password under the wrong user name, refused while both stores hold data
C5_Witness ==
  /\ reqs[1].kind = "messages" /\ reqs[1].status = 401
  /\ reqs[1].arg = Creds("root", apiKey)
  /\ Len(subscribers) > 0 /\ Len(messages) > 0

\* C6: an authorized listing returns the whole collection with each record's
\* timestamp strictly greater than that of the record after it.
C6_NewestFirst ==
  \A r \in ReqIds :
    (reqs[r].kind \in {"subscribers", "messages"} /\ reqs[r].status = 200) =>
      LET rows == reqs[r].body.data IN
      \A i \in 1..(Len(rows) - 1) : rows[i].at > rows[i + 1].at

\* C7: once a client key has used up a route's quota in the current window, every
\* further request on that route is answered by the limiter with its fixed
\* message, whatever the body, and nothing is validated, written or mailed.
C7_OverQuotaRejected ==
  [][\A r \in ReqIds : \A rt \in Routes : \A k \in ClientKeys :
       ( /\ Arrives(r) /\ reqs'[r].kind = rt
         /\ hits'[rt][k] # hits[rt][k] /\ hits[rt][k].n >= max(rt) ) =>
         /\ reqs'[r].pc = "done" /\ reqs'[r].status = 429
         /\ reqs'[r].body = TooMany(rt)
         /\ reqs'[r].wrote = 0 /\ reqs'[r].mails = 0
         /\ UNCHANGED <<subscribers, messages, cache>>]_vars

\* the 11th subscription of a window, well-formed, refused after the contact
\* route has refused its 6th
C7_Witness ==
  /\ reqs[1].kind = "subscribe" /\ reqs[1].status = 429
  /\ reqs[1].arg.email = Str(E1)
  /\ hits["subscribe"]["k1"].n = SubscribeMax + 1
  /\ hits["contact"]["k1"].n = ContactMax + 1

\* C8: in the builds that send email, a subscribe or contact request whose store
\* write succeeded is answered 200, whether the send succeeds or fails.
C8_MailFailureStays200 ==
  \A r \in ReqIds :
    ( /\ variant \in MailVariants
      /\ reqs[r].kind \in {"subscribe", "contact"}
      /\ reqs[r].wrote = 1 /\ reqs[r].status # 0 )
    => reqs[r].status = 200

\* C9: once a contact request has been answered 200, an authorized listing that
\* sees its record returns that record first.
C9_NewMessageFirst ==
  \A r, l \in ReqIds :
    ( /\ reqs[r].kind = "contact" /\ reqs[r].status = 200 /\ reqs[r].wrote = 1
      /\ reqs[l].kind = "messages" /\ reqs[l].status = 200
      /\ \E i \in 1..Len(reqs[l].body.data) : reqs[l].body.data[i].id = reqs[r].key )
    => /\ reqs[l].body.data[1].id = reqs[r].key
       /\ reqs[l].body.data[1].name = reqs[r].arg.name.v
       /\ reqs[l].body.data[1].email = reqs[r].arg.email.v
       /\ reqs[l].body.data[1].message = reqs[r].arg.message.v

\* C10: a GET /fetch-feed whose outbound request fails is answered 500 after that
\* single attempt, and from its arrival to its answer it creates no cache entry
\* and changes none; its lookup may only drop an entry that had already expired.
C10_FetchFailureLeavesCache ==
  [][\A r \in ReqIds :
       /\ (reqs[r].pc = "fetch" /\ reqs'[r].pc # "fetch" /\ reqs'[r].status # 200) =>
            /\ reqs'[r].pc = "done" /\ reqs'[r].status = 500
            /\ reqs'[r].fetches = 1
            /\ cache' = cache
       /\ (reqs[r].pc # "fetch" /\ reqs'[r].pc = "fetch") =>
            /\ reqs'[r].fetches = 1
            /\ \A u \in Urls :
                 \/ cache'[u] = cache[u]
                 \/ cache'[u] = NoEntry /\ Expired(cache[u])]_vars

\* a failed fetch answered 500 while the cache holds the entry of an earlier fetch
C10_Witness ==
  \E r \in ReqIds :
    /\ reqs[r].kind = "feed" /\ reqs[r].status = 500 /\ reqs[r].fetches = 1
    /\ reqs[r].arg = Str("u1")
    /\ cache["u1"] # NoEntry /\ cache["u1"].v = "x"

\* C11: a cache hit sends the body that the populating miss sent for the same
\* payload: the payload itself, in the encoding of res.send.
C11_HitBodyVerbatim ==
  [][\A r \in ReqIds :
       ( /\ Arrives(r) /\ reqs'[r].kind = "feed" /\ ~Falsy(reqs'[r].arg)
         /\ reqs'[r].pc = "done" /\ reqs'[r].status = 200 ) =>
         reqs'[r].body = SendOf(cache[reqs'[r].arg.v].v)]_vars

\* every record of the old store is a record of the new one, fields unchanged
Kept(old, new) == \A i \in 1..Len(old) : \E j \in 1..Len(new) : new[j] = old[i]

\* C12: both stores are append-only: every step keeps every stored record with
\* its fields unchanged, and a step of a feed or listing request changes neither
\* store.
C12_AppendOnly ==
  [][/\ Kept(subscribers, subscribers') /\ Len(subscribers') >= Len(subscribers)
     /\ Kept(messages, messages') /\ Len(messages') >= Len(messages)
     /\ \A r \in ReqIds :
          (reqs'[r] # reqs[r] /\ reqs'[r].kind \in {"feed", "subscribers", "messages"}) =>
            UNCHANGED <<subscribers, messages>>]_vars

\* a second subscriber stored after the first, and an authorized listing answered
C12_Witness ==
  /\ Len(subscribers) >= 2 /\ Len(messages) >= 1
  /\ reqs[1].kind = "subscribers" /\ reqs[1].status = 200
  /\ Len(reqs[1].body.data) >= 2

\* the store holds a record made from the fields request q submitted
Stored(q) ==
  IF q.kind = "subscribe"
  THEN \E i \in 1..Len(subscribers) : subscribers[i].email = q.arg.email.v
  ELSE \E i \in 1..Len(messages) :
         /\ messages[i].name = q.arg.name.v /\ messages[i].email = q.arg.email.v
         /\ messages[i].message = q.arg.message.v

\* C13: a subscribe or contact request goes validate, persist, notify, respond:
\* a write is handed to the store only for well-formed input, an email is
\* dispatched only once the request's own record is stored, a 200 is sent only
\* once it is stored, and a request answered 400, 409 or 429, or whose write
\* failed, has dispatched no email.
C13_ValidatePersistNotifyRespond ==
  \A r \in ReqIds : reqs[r].kind \in {"subscribe", "contact"} =>
    /\ reqs[r].pc = "write" => ~Malformed(reqs[r]) /\ reqs[r].wrote = 0 /\ reqs[r].mails = 0
    /\ reqs[r].mails > 0 => reqs[r].wrote = 1 /\ Stored(reqs[r])
    /\ reqs[r].status = 200 => reqs[r].wrote = 1 /\ Stored(reqs[r])
    /\ reqs[r].status \in {400, 409, 429} => reqs[r].mails = 0 /\ reqs[r].wrote = 0
    /\ (reqs[r].status = 500 /\ reqs[r].wrote = 0) => reqs[r].mails = 0
    /\ reqs[r].pc = "mail" => reqs[r].mails = 1

\* a contact request answered 200 after its record was stored and its email sent
C13_Witness ==
  /\ variant = "firebase"
  /\ reqs[1].kind = "contact" /\ reqs[1].pc = "done" /\ reqs[1].status = 200
  /\ reqs[1].wrote = 1 /\ reqs[1].mails = 1
  /\ \E i \in 1..Len(messages) : messages[i].message = reqs[1].arg.message.v

\* the first address a header names: the characters from its first one that is
\* not white space up to the next white space or comma
FirstAddress(h, from) ==
  LET stops == {i \in from..Len(h) : h[i] \in {" ", ","}} \cup {Len(h) + 1}
  IN  SubSeq(h, from, (CHOOSE i \in stops : \A j \in stops : i <= j) - 1)

ClientOf(c) ==
  IF c.xff = Undef \/ c.xff.v = <<>> THEN c.ip
  ELSE LET h == c.xff.v
           inked == {i \in 1..Len(h) : h[i] # " "}
       IN  Spelled(FirstAddress(h, CHOOSE i \in inked : \A j \in inked : i <= j))

\* C14: the limiter counts per route and per client key, the key being the first
\* address of the forwarding header when there is one and the connection address
\* otherwise: a request adds one to the count of its own route and client and
\* leaves every other count as it was, whatever connection it arrives over.
C14_PerRoutePerKey ==
  [][\A r \in ReqIds :
       IF Arrives(r) /\ reqs'[r].kind \in Routes
       THEN LET rt == reqs'[r].kind
                k == ClientOf(reqs'[r].conn)
            IN  /\ k \in ClientKeys
                /\ hits'[rt][k].n = hits[rt][k].n + 1
                /\ \A rt2 \in Routes : \A k2 \in ClientKeys :
                     (rt2 # rt \/ k2 # k) => hits'[rt2][k2] = hits[rt2][k2]
       ELSE Arrives(r) => UNCHANGED hits]_vars

\* k1 counted twice on /subscribe, the second time through a proxy whose own
\* address is k2, while k2's count and k1's /contact count stand at one
C14_Witness ==
  /\ reqs[1].kind = "subscribe" /\ reqs[1].conn = Forwarded(ViaProxy, "k2")
  /\ hits["subscribe"]["k1"].n = 2 /\ hits["subscribe"]["k2"].n = 1
  /\ hits["contact"]["k1"].n = 1 /\ hits["contact"]["k2"].n = 0

\* C15: overlapping feed requests for an uncached url do not wait for one
\* another: one that arrives while another's outbound request for the url is
\* still open issues its own; each is answered with the payload its own request
\* brought, and each completion stores that payload as the url's entry, so the
\* entry left behind is that of the request that completed last.
C15_OverlappingFetches ==
  [][\A r \in ReqIds :
       /\ ( /\ Arrives(r) /\ reqs'[r].kind = "feed" /\ ~Falsy(reqs'[r].arg)
            /\ LiveEntry(reqs'[r].arg.v) = NoEntry ) =>
            reqs'[r].pc = "fetch" /\ reqs'[r].fetches = 1
       /\ (reqs[r].pc = "fetch" /\ reqs'[r].pc = "done" /\ reqs'[r].status = 200) =>
            /\ \E p \in Payloads :
                 /\ reqs'[r].body = [ctype |-> "html", data |-> <<p>>]
                 /\ cache'[reqs[r].arg.v] = [v |-> p, t |-> now + TtlTicks]
            /\ \A u \in Urls \ {reqs[r].arg.v} : cache'[u] = cache[u]
            /\ \A o \in ReqIds \ {r} : reqs'[o] = reqs[o]]_vars

\* two requests for u1 in flight together, answered x and y in that order, the
\* cache left with y
C15_Witness ==
  /\ now = 0
  /\ reqs[1].kind = "feed" /\ reqs[2].kind = "feed"
  /\ reqs[1].arg = Str("u1") /\ reqs[2].arg = Str("u1")
  /\ reqs[1].fetches = 1 /\ reqs[2].fetches = 1
  /\ reqs[1].status = 200 /\ reqs[2].status = 200
  /\ reqs[1].body.data = <<"x">> /\ reqs[2].body.data = <<"y">>
  /\ cache["u1"].v = "y"

\* C16: every request is answered exactly once: no request is ever answered
\* twice, a handler that has returned has answered, and a request waiting for a
\* fetch, a store call or an email send is answered in the end.
C16_AnsweredOnce ==
  /\ [](\A r \in ReqIds :
          /\ reqs[r].sent <= 1
          /\ reqs[r].pc = "done" => reqs[r].sent = 1
          /\ reqs[r].sent = 1 <=> reqs[r].status # 0)
  /\ \A r \in ReqIds :
       (reqs[r].pc \in {"fetch", "write", "mail", "read"}) ~> (reqs[r].sent = 1)

\* a subscription stored but answered 500, once, because the email send failed,
\* after the contact route has refused a request
C16_Witness ==
  /\ variant = "firebase"
  /\ reqs[1].kind = "subscribe" /\ reqs[1].pc = "done"
  /\ reqs[1].wrote = 1 /\ reqs[1].mails = 1
  /\ reqs[1].status = 500 /\ reqs[1].sent = 1
  /\ hits["contact"]["k1"].n = ContactMax + 1

====
